---- MODULE Spec2Model ----
(***************************************************************************)
(* The ccan base64 codec (base64.c / base64.h): alphabet tables, the       *)
(* triplet/quartet unit codecs, the tail codecs and the buffer drivers.    *)
(* Bytes and chars are the bit patterns 0..255; buffers are sequences      *)
(* (index k of the C array is element k+1).                                *)
(***************************************************************************)
EXTENDS Integers, Sequences, FiniteSets, TLC

(* ---------------------------------------------------------------------- *)
(* Bounds of the model                                                     *)
(* ---------------------------------------------------------------------- *)
\* longest raw byte source handed to encode
MaxSrcLen == 6
\* longest symbol source handed to decode
MaxSymLen == 5
\* largest number of destination bytes beyond the required length
MaxSlack == 2

(* ---------------------------------------------------------------------- *)
(* C integer and memory helpers                                            *)
(* ---------------------------------------------------------------------- *)
RECURSIVE BitAnd(_, _)
\* x & y on non-negative ints
BitAnd(x, y) ==
    IF x = 0 \/ y = 0 THEN 0
    ELSE (x % 2) * (y % 2) + 2 * BitAnd(x \div 2, y \div 2)

RECURSIVE BitOr(_, _)
\* x | y on non-negative ints
BitOr(x, y) ==
    IF x = 0 THEN y
    ELSE IF y = 0 THEN x
    ELSE (IF (x % 2) + (y % 2) > 0 THEN 1 ELSE 0) + 2 * BitOr(x \div 2, y \div 2)

RECURSIVE Pow2(_)
Pow2(n) == IF n = 0 THEN 1 ELSE 2 * Pow2(n - 1)

\* x << n and x >> n on non-negative ints
Shl(x, n) == x * Pow2(n)
Shr(x, n) == x \div Pow2(n)

\* a char read from a buffer, promoted to int (char is signed on the build)
CharToInt(b) == IF b >= 128 THEN b - 256 ELSE b
\* the low 16 bits of an int's two's complement pattern (the operand of & with
\* a mask; no mask of the codec reaches above bit 7)
IntBits(v) == (v + 65536) % 65536
\* an int stored into a char
IntToChar(v) == v % 256

\* memcpy(buf + off, vals, Len(vals))
Store(buf, off, vals) ==
    [k \in 1..Len(buf) |->
        IF k > off /\ k <= off + Len(vals) THEN vals[k - off] ELSE buf[k]]

\* memset(buf + off, c, n)
MemSet(buf, off, c, n) ==
    [k \in 1..Len(buf) |-> IF k > off /\ k <= off + n THEN c ELSE buf[k]]

\* n copies of c
Fill(c, n) == [k \in 1..n |-> c]

\* the padding symbol '='
PAD == 61
\* the symbol 'A' the tail decoder fills a short group with
FILL_A == 65
\* the value of size_t -1, the error return
ERR == -1

(* ---------------------------------------------------------------------- *)
(* Alphabet tables                                                          *)
(* ---------------------------------------------------------------------- *)
\* "ABCDEFGHIJKLMNOPQRSTUVWXYZabcdefghijklmnopqrstuvwxyz0123456789+/"
base64_alphabet_rfc4648 ==
    << 65, 66, 67, 68, 69, 70, 71, 72, 73, 74, 75, 76, 77, 78, 79, 80,
       81, 82, 83, 84, 85, 86, 87, 88, 89, 90, 97, 98, 99, 100, 101, 102,
       103, 104, 105, 106, 107, 108, 109, 110, 111, 112, 113, 114, 115, 116, 117, 118,
       119, 120, 121, 122, 48, 49, 50, 51, 52, 53, 54, 55, 56, 57, 43, 47 >>

\* the decode map literal of the pregenerated table, entries 0..255
base64_decode_map_rfc4648 ==
    << -1, -1, -1, -1, -1, -1, -1, -1, -1, -1, -1, -1, -1, -1, -1, -1,
       -1, -1, -1, -1, -1, -1, -1, -1, -1, -1, -1, -1, -1, -1, -1, -1,
       -1, -1, -1, -1, -1, -1, -1, -1, -1, -1, -1, 62, -1, -1, -1, 63,
       52, 53, 54, 55, 56, 57, 58, 59, 60, 61, -1, -1, -1, -1, -1, -1,
       -1, 0, 1, 2, 3, 4, 5, 6, 7, 8, 9, 10, 11, 12, 13, 14,
       15, 16, 17, 18, 19, 20, 21, 22, 23, 24, 25, -1, -1, -1, -1, -1,
       -1, 26, 27, 28, 29, 30, 31, 32, 33, 34, 35, 36, 37, 38, 39, 40,
       41, 42, 43, 44, 45, 46, 47, 48, 49, 50, 51, -1, -1, -1, -1, -1,
       -1, -1, -1, -1, -1, -1, -1, -1, -1, -1, -1, -1, -1, -1, -1, -1,
       -1, -1, -1, -1, -1, -1, -1, -1, -1, -1, -1, -1, -1, -1, -1, -1,
       -1, -1, -1, -1, -1, -1, -1, -1, -1, -1, -1, -1, -1, -1, -1, -1,
       -1, -1, -1, -1, -1, -1, -1, -1, -1, -1, -1, -1, -1, -1, -1, -1,
       -1, -1, -1, -1, -1, -1, -1, -1, -1, -1, -1, -1, -1, -1, -1, -1,
       -1, -1, -1, -1, -1, -1, -1, -1, -1, -1, -1, -1, -1, -1, -1, -1,
       -1, -1, -1, -1, -1, -1, -1, -1, -1, -1, -1, -1, -1, -1, -1, -1,
       -1, -1, -1, -1, -1, -1, -1, -1, -1, -1, -1, -1, -1, -1, -1, -1 >>

\* the pregenerated RFC 4648 table; decode_map[c] is element c+1
alphabet_rfc4648_pregen ==
    [encode_map |-> base64_alphabet_rfc4648,
     decode_map |-> [c \in 0..255 |-> base64_decode_map_rfc4648[c + 1]]]

RECURSIVE init_decode_map(_, _, _)
\* for (i=0; i<64; i++) decode_map[src[i]] = i;
init_decode_map(map, src, i) ==
    IF i >= 64 THEN map
    ELSE init_decode_map([map EXCEPT ![src[i + 1]] = i], src, i + 1)

\* base64_init_alphabet(dest, src): copy the 64 symbols, fill the decode map
\* with -1, then enter each symbol's index
base64_init_alphabet(src) ==
    [encode_map |-> src,
     decode_map |-> init_decode_map([c \in 0..255 |-> -1], src, 0)]

\* alphabet->encode_map[sixbit]
sixbit_to_b64(alphabet, sixbit) == alphabet.encode_map[sixbit + 1]

\* faulty variant of the symbol lookup: '=' reads as the value 0
sixbit_from_b64_pad_zero(alphabet, b64letter) ==
    IF b64letter = 61 THEN 0 ELSE alphabet.decode_map[b64letter]

\* alphabet->decode_map[b64letter]: the six-bit value, or -1 with errno ERANGE
sixbit_from_b64(alphabet, b64letter) == alphabet.decode_map[b64letter]

base64_char_in_alphabet(alphabet, b64char) == alphabet.decode_map[b64char] # -1

(* ---------------------------------------------------------------------- *)
(* Encoder                                                                  *)
(* ---------------------------------------------------------------------- *)
base64_encoded_length(srclen) == ((srclen + 2) \div 3) * 4

\* faulty variant of the triplet encoder: the third symbol takes the low two
\* bits of b instead of the low four
encode_triplet_narrow_mask(alphabet, src) ==
    LET a == CharToInt(src[1])
        b == CharToInt(src[2])
        c == CharToInt(src[3])
    IN  << sixbit_to_b64(alphabet, Shr(BitAnd(IntBits(a), 252), 2)),
           sixbit_to_b64(alphabet,
               BitOr(Shl(BitAnd(IntBits(a), 3), 4), Shr(BitAnd(IntBits(b), 240), 4))),
           sixbit_to_b64(alphabet,
               BitOr(Shr(BitAnd(IntBits(c), 192), 6), Shl(BitAnd(IntBits(b), 3), 2))),
           sixbit_to_b64(alphabet, BitAnd(IntBits(c), 63)) >>

\* the four symbols written to dest[0..3] for the three chars src[0..2]
base64_encode_triplet_using_alphabet(alphabet, src) ==
    LET a == CharToInt(src[1])
        b == CharToInt(src[2])
        c == CharToInt(src[3])
    IN  << sixbit_to_b64(alphabet, Shr(BitAnd(IntBits(a), 252), 2)),
           sixbit_to_b64(alphabet,
               BitOr(Shl(BitAnd(IntBits(a), 3), 4), Shr(BitAnd(IntBits(b), 240), 4))),
           sixbit_to_b64(alphabet,
               BitOr(Shr(BitAnd(IntBits(c), 192), 6), Shl(BitAnd(IntBits(b), 15), 2))),
           sixbit_to_b64(alphabet, BitAnd(IntBits(c), 63)) >>

\* faulty variant of the tail encoder: one padding symbol too few
encode_tail_short_pad(alphabet, src, srclen) ==
    LET longsrc == MemSet(Store(Fill(0, 3), 0, src), srclen, 0, 3 - srclen)
        dest    == base64_encode_triplet_using_alphabet(alphabet, longsrc)
    IN  MemSet(dest, 2 + srclen, PAD, 2 - srclen)

\* the four symbols written for the last srclen (1 or 2) chars of a source
base64_encode_tail_using_alphabet(alphabet, src, srclen) ==
    LET longsrc == MemSet(Store(Fill(0, 3), 0, src), srclen, 0, 3 - srclen)
        dest    == base64_encode_triplet_using_alphabet(alphabet, longsrc)
    IN  MemSet(dest, 1 + srclen, PAD, 3 - srclen)

\* memset(&dest[dest_offset], '\0', destlen-dest_offset) at the end of encode
encode_nul_pad(dest, dest_offset) ==
    MemSet(dest, dest_offset, 0, Len(dest) - dest_offset)

RECURSIVE encode_loop(_, _, _, _, _)
\* while (srclen - src_offset >= 3) { triplet; src_offset += 3; dest_offset += 4; }
encode_loop(alphabet, dest, src, src_offset, dest_offset) ==
    IF Len(src) - src_offset >= 3
    THEN encode_loop(alphabet,
             Store(dest, dest_offset,
                   base64_encode_triplet_using_alphabet(alphabet,
                       SubSeq(src, src_offset + 1, src_offset + 3))),
             src, src_offset + 3, dest_offset + 4)
    ELSE [dest |-> dest, src_offset |-> src_offset, dest_offset |-> dest_offset]

\* base64_encode_using_alphabet(alphabet, dest, destlen, src, srclen), called
\* with errno = err: the return value, dest and errno after the call
base64_encode_using_alphabet(alphabet, dest, src, err) ==
    LET destlen == Len(dest)
        srclen  == Len(src)
    IN  IF destlen < base64_encoded_length(srclen)
        THEN [ret |-> ERR, dest |-> dest, errno |-> "EOVERFLOW"]
        ELSE LET l    == encode_loop(alphabet, dest, src, 0, 0)
                 rest == srclen - l.src_offset
                 d1   == IF rest # 0
                         THEN Store(l.dest, l.dest_offset,
                                  base64_encode_tail_using_alphabet(alphabet,
                                      SubSeq(src, l.src_offset + 1, srclen), rest))
                         ELSE l.dest
                 off  == IF rest # 0 THEN l.dest_offset + 4 ELSE l.dest_offset
             IN  [ret |-> off,
                  dest |-> encode_nul_pad(d1, off),
                  errno |-> err]

(* ---------------------------------------------------------------------- *)
(* Decoder                                                                  *)
(* ---------------------------------------------------------------------- *)
\* faulty variant of the decode bound: rounds the number of groups down
decoded_length_floor(srclen) == (srclen \div 4) * 3

base64_decoded_length(srclen) == ((srclen + 3) \div 4) * 3

\* faulty variant of the quartet decoder: the second byte shifts c by 4, not 2
decode_quartet_wrong_shift(alphabet, src, err) ==
    LET a == sixbit_from_b64(alphabet, src[1])
        b == sixbit_from_b64(alphabet, src[2])
        c == sixbit_from_b64(alphabet, src[3])
        d == sixbit_from_b64(alphabet, src[4])
    IN  IF a = -1 \/ b = -1 \/ c = -1 \/ d = -1
        THEN [ret |-> -1, dest |-> << >>, errno |-> "ERANGE"]
        ELSE [ret |-> 0,
              dest |-> << IntToChar(BitOr(Shl(a, 2), Shr(b, 4))),
                          IntToChar(BitOr(Shl(BitAnd(b, 15), 4), Shr(c, 4))),
                          IntToChar(BitOr(Shl(BitAnd(c, 3), 6), d)) >>,
              errno |-> err]

\* base64_decode_quartet_using_alphabet on the four symbols src[0..3], called
\* with errno = err: ret 0 and the three bytes written to dest[0..2], or ret -1
\* with nothing written and errno ERANGE (set by sixbit_from_b64)
base64_decode_quartet_using_alphabet(alphabet, src, err) ==
    LET a == sixbit_from_b64(alphabet, src[1])
        b == sixbit_from_b64(alphabet, src[2])
        c == sixbit_from_b64(alphabet, src[3])
        d == sixbit_from_b64(alphabet, src[4])
    IN  IF a = -1 \/ b = -1 \/ c = -1 \/ d = -1
        THEN [ret |-> -1, dest |-> << >>, errno |-> "ERANGE"]
        ELSE [ret |-> 0,
              dest |-> << IntToChar(BitOr(Shl(a, 2), Shr(b, 4))),
                          IntToChar(BitOr(Shl(BitAnd(b, 15), 4), Shr(c, 2))),
                          IntToChar(BitOr(Shl(BitAnd(c, 3), 6), d)) >>,
              errno |-> err]

\* faulty variant of the scan for padding: an if in place of the while
strip_padding_once(mem, base, insize, pre) ==
    LET at == base + insize - 1
    IN  IF at < 0
        THEN (IF pre = PAD THEN insize - 1 ELSE insize)
        ELSE IF mem[at + 1] = PAD THEN insize - 1 ELSE insize

RECURSIVE strip_padding(_, _, _, _)
\* while (src[insize-1] == '=') insize--;  src is mem + base. insize is a
\* size_t: 0 - 1 wraps, so the read after insize reaches 0 is of the byte in
\* front of src, and a negative result stands for the wrapped value 2^64 + insize.
\* A read in front of mem itself is outside the caller's buffer: it yields the
\* byte pre that happens to be there, and the scan is followed no further.
strip_padding(mem, base, insize, pre) ==
    LET at == base + insize - 1
    IN  IF at < 0
        THEN (IF pre = PAD THEN insize - 1 ELSE insize)
        ELSE IF mem[at + 1] = PAD
             THEN strip_padding(mem, base, insize - 1, pre)
             ELSE insize

\* faulty variant of the tail decoder: no check for a single leftover symbol
decode_tail_accepts_single(alphabet, mem, base, srclen, pre, err) ==
    IF srclen = 0
    THEN [ret |-> 0, dest |-> << >>, errno |-> err, ub |-> FALSE, low |-> 0]
    ELSE
    LET insize == strip_padding(mem, base, srclen, pre)
        low    == insize - 1
        oob    == base + low < 0
    IN  IF insize < 0
        THEN [ret |-> ERR, dest |-> << >>, errno |-> err, ub |-> TRUE, low |-> low]
        ELSE
        LET longsrc == MemSet(Store(Fill(0, 4), 0, SubSeq(mem, base + 1, base + insize)),
                              insize, FILL_A, 4 - insize)
            q       == base64_decode_quartet_using_alphabet(alphabet, longsrc, err)
        IN  IF q.ret = -1
            THEN [ret |-> -1, dest |-> << >>, errno |-> q.errno, ub |-> oob, low |-> low]
            ELSE [ret |-> insize - 1, dest |-> q.dest, errno |-> q.errno,
                  ub |-> oob, low |-> low]

\* base64_decode_tail_using_alphabet(alphabet, dest, mem + base, srclen), called
\* with errno = err. dest is the bytes written to dest[0..2] (none on the paths
\* that write nothing). ub marks the calls whose behaviour is undefined: the
\* scan for padding read in front of mem, or left a wrapped insize as the length
\* of the memcpy (no return is modelled for that one). low is the index of src
\* the scan read last.
base64_decode_tail_using_alphabet(alphabet, mem, base, srclen, pre, err) ==
    IF srclen = 0
    THEN [ret |-> 0, dest |-> << >>, errno |-> err, ub |-> FALSE, low |-> 0]
    ELSE
    LET insize == strip_padding(mem, base, srclen, pre)
        low    == insize - 1
        oob    == base + low < 0
    IN  IF insize < 0
        THEN [ret |-> ERR, dest |-> << >>, errno |-> err, ub |-> TRUE, low |-> low]
        ELSE IF insize = 1
        THEN [ret |-> -1, dest |-> << >>, errno |-> "EINVAL", ub |-> FALSE, low |-> low]
        ELSE
        LET longsrc == MemSet(Store(Fill(0, 4), 0, SubSeq(mem, base + 1, base + insize)),
                              insize, FILL_A, 4 - insize)
            q       == base64_decode_quartet_using_alphabet(alphabet, longsrc, err)
        IN  IF q.ret = -1
            THEN [ret |-> -1, dest |-> << >>, errno |-> q.errno, ub |-> oob, low |-> low]
            ELSE [ret |-> insize - 1, dest |-> q.dest, errno |-> q.errno,
                  ub |-> oob, low |-> low]

\* faulty variant of the final memset of decode: it starts after the last whole
\* group of three bytes that was written
decode_nul_pad_after_group(dest, dest_offset) ==
    LET written == ((dest_offset + 2) \div 3) * 3
    IN  MemSet(dest, written, 0, Len(dest) - written)

\* memset(&dest[dest_offset], '\0', destlen-dest_offset) at the end of decode
decode_nul_pad(dest, dest_offset) ==
    MemSet(dest, dest_offset, 0, Len(dest) - dest_offset)

RECURSIVE decode_loop(_, _, _, _, _, _)
\* for (i=0; srclen - i > 4; i+=4) { quartet, return -1 on failure; dest_offset += 3; }
decode_loop(alphabet, dest, src, i, dest_offset, err) ==
    IF Len(src) - i > 4
    THEN LET q == base64_decode_quartet_using_alphabet(alphabet,
                      SubSeq(src, i + 1, i + 4), err)
         IN  IF q.ret = -1
             THEN [failed |-> TRUE, dest |-> dest, i |-> i,
                   dest_offset |-> dest_offset, errno |-> q.errno]
             ELSE decode_loop(alphabet, Store(dest, dest_offset, q.dest), src,
                              i + 4, dest_offset + 3, q.errno)
    ELSE [failed |-> FALSE, dest |-> dest, i |-> i,
          dest_offset |-> dest_offset, errno |-> err]

\* base64_decode_using_alphabet(alphabet, dest, destlen, src, srclen), called
\* with errno = err and the byte pre in memory in front of src
base64_decode_using_alphabet(alphabet, dest, src, pre, err) ==
    LET destlen == Len(dest)
        srclen  == Len(src)
    IN  IF destlen < base64_decoded_length(srclen)
        THEN [ret |-> ERR, dest |-> dest, errno |-> "EOVERFLOW", ub |-> FALSE, low |-> 0]
        ELSE
        LET l == decode_loop(alphabet, dest, src, 0, 0, err)
        IN  IF l.failed
            THEN [ret |-> ERR, dest |-> l.dest, errno |-> l.errno, ub |-> FALSE, low |-> 0]
            ELSE
            LET t    == base64_decode_tail_using_alphabet(alphabet, src, l.i,
                            srclen - l.i, pre, l.errno)
                d1   == Store(l.dest, l.dest_offset, t.dest)
                more == t.ret
                off  == l.dest_offset + more
            IN  IF more = -1
                THEN [ret |-> ERR, dest |-> d1, errno |-> t.errno, ub |-> t.ub, low |-> t.low]
                ELSE [ret |-> off, dest |-> decode_nul_pad(d1, off),
                      errno |-> t.errno, ub |-> t.ub, low |-> t.low]

(* ---------------------------------------------------------------------- *)
(* The tables the callers use                                               *)
(* ---------------------------------------------------------------------- *)
\* the URL-safe symbols: '-' and '_' in place of '+' and '/'
UrlSafeSymbols ==
    [k \in 1..64 |-> IF k = 63 THEN 45 ELSE IF k = 64 THEN 95
                     ELSE base64_alphabet_rfc4648[k]]

\* "./" followed by A-Z a-z 0-9: 'A' is a symbol but not the symbol of value 0
CryptSymbols ==
    [k \in 1..64 |-> IF k = 1 THEN 46 ELSE IF k = 2 THEN 47
                     ELSE base64_alphabet_rfc4648[k - 2]]

\* the RFC 4648 symbols with '.' in place of 'A': 'A' is no symbol
DotSymbols ==
    [k \in 1..64 |-> IF k = 1 THEN 46 ELSE base64_alphabet_rfc4648[k]]

\* the 64 characters ' ' .. '_' in order: '=' is the symbol of value 29
UuSymbols == [k \in 1..64 |-> 31 + k]

\* table 1 is the pregenerated one; the others are built by base64_init_alphabet
Tables ==
    << alphabet_rfc4648_pregen,
       base64_init_alphabet(UrlSafeSymbols),
       base64_init_alphabet(CryptSymbols),
       base64_init_alphabet(DotSymbols),
       base64_init_alphabet(UuSymbols) >>

TableIds == 1..Len(Tables)

(* ---------------------------------------------------------------------- *)
(* Inputs                                                                   *)
(* ---------------------------------------------------------------------- *)
\* sequences over S of length 0..n
SeqsUpTo(S, n) == UNION {[1..l -> S] : l \in 0..n}

\* a destination buffer of n bytes as the caller hands it over (not zeroed)
FreshDest(n) == Fill(170, n)

\* byte sources: every byte value in every position, the other positions
\* holding all zeros or all ones
SweepSources ==
    {[k \in 1..l |-> IF k = pos THEN v ELSE f] :
        l \in 0..MaxSrcLen, pos \in 1..MaxSrcLen, v \in 0..255, f \in {0, 255}}

\* "", "f", "fo", "foo", "foobar"
VectorSources ==
    { << >>, <<102>>, <<102, 111>>, <<102, 111, 111>>,
      <<102, 111, 111, 98, 97, 114>> }

\* the symbols decode is fed: 'A' 'Z' '=' '@' '-'
SymBytes == {65, 90, 61, 64, 45}

\* "Zg==", "Zm8=", "Zm9v", "Zm9vYmFy"
VectorSymbols ==
    { <<90, 103, 61, 61>>, <<90, 109, 56, 61>>, <<90, 109, 57, 118>>,
      <<90, 109, 57, 118, 89, 109, 70, 121>> }

\* the byte that may lie in memory in front of a source buffer: '=' or not
PreBytes == {PAD, 0}

\* destination lengths tried on the sources of the capacity sweep
CapacityLens(need) == {n \in (need - 2)..(need + MaxSlack) : n >= 0}

\* the least k with k * d >= n
CeilDiv(n, d) == CHOOSE k \in 0..n : k * d >= n /\ (k = 0 \/ (k - 1) * d < n)

\* the destination lengths the two drivers require
EncNeed(srclen) == CeilDiv(srclen, 3) * 4
DecNeed(srclen) == CeilDiv(srclen, 4) * 3

EncInputs ==
    {[alphabet |-> t, src |-> x, destlen |-> EncNeed(Len(x))] :
        t \in TableIds, x \in SweepSources \cup VectorSources}
    \cup
    UNION {{[alphabet |-> 1, src |-> x, destlen |-> n] :
               n \in CapacityLens(EncNeed(Len(x)))} :
           x \in SeqsUpTo({0, 255}, MaxSrcLen)}

DecInputs ==
    {[alphabet |-> t, src |-> s, destlen |-> DecNeed(Len(s))] :
        t \in TableIds, s \in SeqsUpTo(SymBytes, MaxSymLen) \cup VectorSymbols}
    \cup
    UNION {{[alphabet |-> 1, src |-> s, destlen |-> n] :
               n \in CapacityLens(DecNeed(Len(s)))} :
           s \in SeqsUpTo({65, 61}, MaxSymLen)}

\* sources of either kind with destinations from too short to longer than needed
CapInputs ==
    UNION {{[alphabet |-> t, src |-> x, destlen |-> n] :
               n \in CapacityLens(EncNeed(Len(x))) \cup CapacityLens(DecNeed(Len(x)))} :
           t \in TableIds,
           x \in SeqsUpTo({0, 255}, MaxSrcLen) \cup SeqsUpTo({65, 90, 61}, MaxSymLen)}

(* ---------------------------------------------------------------------- *)
(* State: one caller, its buffers and the results of its calls              *)
(* ---------------------------------------------------------------------- *)
VARIABLES
    alphabet,   \* the base64_alphabet_t in use
    src,        \* the source buffer of the first call
    dest,       \* the destination buffer of the first call
    ret,        \* the first call's return value (0 before the call)
    errno,      \* errno
    ub,         \* a call read in front of its source buffer (undefined behaviour)
    dest2,      \* the destination buffer of the second call
    ret2,       \* the second call's return value (0 before the call)
    low,        \* the index of its segment the tail decoder's scan for padding
                \* read last in the latest decode (negative: in front of it)
    pc          \* what the caller has done so far

vars == <<alphabet, src, dest, ret, errno, ub, dest2, ret2, low, pc>>

InitWith(inputs) ==
    \E t \in TableIds :
        /\ alphabet = Tables[t]
        /\ \E inp \in {i \in inputs : i.alphabet = t} :
            /\ src = inp.src
            /\ dest = FreshDest(inp.destlen)
        /\ ret = 0
        /\ errno = "0"
        /\ ub = FALSE
        /\ dest2 = << >>
        /\ ret2 = 0
        /\ low = 0
        /\ pc = "start"

InitEnc == InitWith(EncInputs)
InitDec == InitWith(DecInputs)
InitCap == InitWith(CapInputs)

\* how many bytes the caller gave dest beyond the length need
Slack(need) == IF Len(dest) > need THEN Len(dest) - need ELSE 0

\* the caller encodes src into dest
Encode ==
    /\ pc = "start"
    /\ LET r == base64_encode_using_alphabet(alphabet, dest, src, errno)
       IN  /\ dest' = r.dest
           /\ ret' = r.ret
           /\ errno' = r.errno
    /\ pc' = "encoded"
    /\ UNCHANGED <<alphabet, src, ub, dest2, ret2, low>>

\* the caller decodes the symbols encode returned into a second buffer
DecodeBack ==
    /\ pc = "encoded"
    /\ ret # ERR
    /\ \E pre \in PreBytes :
        LET r == base64_decode_using_alphabet(alphabet,
                     FreshDest(base64_decoded_length(ret)
                               + Slack(base64_encoded_length(Len(src)))),
                     SubSeq(dest, 1, ret), pre, errno)
        IN  /\ dest2' = r.dest
            /\ ret2' = r.ret
            /\ errno' = r.errno
            /\ ub' = r.ub
            /\ low' = r.low
    /\ pc' = "roundtrip"
    /\ UNCHANGED <<alphabet, src, dest, ret>>

\* the caller decodes src into dest
Decode ==
    /\ pc = "start"
    /\ \E pre \in PreBytes :
        LET r == base64_decode_using_alphabet(alphabet, dest, src, pre, errno)
        IN  /\ dest' = r.dest
            /\ ret' = r.ret
            /\ errno' = r.errno
            /\ ub' = r.ub
            /\ low' = r.low
    /\ pc' = "decoded"
    /\ UNCHANGED <<alphabet, src, dest2, ret2>>

\* the caller hands a source of at most 4 symbols straight to the tail decoder
DecodeTail ==
    /\ pc = "start"
    /\ Len(src) <= 4
    /\ Len(dest) >= 3
    /\ \E pre \in PreBytes :
        LET r == base64_decode_tail_using_alphabet(alphabet, src, 0,
                     Len(src), pre, errno)
        IN  /\ dest' = Store(dest, 0, r.dest)
            /\ ret' = r.ret
            /\ errno' = r.errno
            /\ ub' = r.ub
            /\ low' = r.low
    /\ pc' = "tail"
    /\ UNCHANGED <<alphabet, src, dest2, ret2>>

\* the caller encodes the bytes decode returned into a second buffer
EncodeBack ==
    /\ pc = "decoded"
    /\ ret # ERR
    /\ ~ub
    /\ LET r == base64_encode_using_alphabet(alphabet,
                    FreshDest(base64_encoded_length(ret)
                              + Slack(base64_decoded_length(Len(src)))),
                    SubSeq(dest, 1, ret), errno)
       IN  /\ dest2' = r.dest
           /\ ret2' = r.ret
           /\ errno' = r.errno
    /\ pc' = "reencoded"
    /\ UNCHANGED <<alphabet, src, dest, ret, ub, low>>

NextEnc == Encode \/ DecodeBack
NextDec == Decode \/ DecodeTail \/ EncodeBack
NextCap == Encode \/ Decode

SpecEnc == InitEnc /\ [][NextEnc]_vars
SpecDec == InitDec /\ [][NextDec]_vars
SpecCap == InitCap /\ [][NextCap]_vars

(* ---------------------------------------------------------------------- *)
(* Reference definitions the properties are stated with                     *)
(* ---------------------------------------------------------------------- *)
IsRfcTable == alphabet.encode_map = base64_alphabet_rfc4648

\* c is one of the 64 symbols of the table
IsSymbol(tab, c) == \E i \in 1..64 : tab.encode_map[i] = c

\* the six-bit value of symbol c
ValueOf(tab, c) == (CHOOSE i \in 1..64 : tab.encode_map[i] = c) - 1

\* the 24 bits of three bytes cut into four 6-bit values, most significant first
RefSixbits(b1, b2, b3) ==
    LET n == b1 * 65536 + b2 * 256 + b3
    IN  << n \div 262144, (n \div 4096) % 64, (n \div 64) % 64, n % 64 >>

RECURSIVE RefEncode(_, _)
\* the RFC 4648 encoding of the bytes x with the symbols of tab
RefEncode(tab, x) ==
    LET sym(v) == tab.encode_map[v + 1]
    IN  IF Len(x) = 0 THEN << >>
        ELSE IF Len(x) = 1
        THEN LET v == RefSixbits(x[1], 0, 0) IN << sym(v[1]), sym(v[2]), 61, 61 >>
        ELSE IF Len(x) = 2
        THEN LET v == RefSixbits(x[1], x[2], 0) IN << sym(v[1]), sym(v[2]), sym(v[3]), 61 >>
        ELSE LET v == RefSixbits(x[1], x[2], x[3])
             IN  << sym(v[1]), sym(v[2]), sym(v[3]), sym(v[4]) >>
                 \o RefEncode(tab, SubSeq(x, 4, Len(x)))

\* the destination of the first call is at least as long as the call requires
EncDestFits == Len(dest) >= EncNeed(Len(src))
DecDestFits == Len(dest) >= DecNeed(Len(src))

\* the 0-based offset of the final group of src (the segment decode hands to
\* the tail decoder)
FinalStart == IF Len(src) = 0 THEN 0 ELSE 4 * ((Len(src) - 1) \div 4)

\* the positions of the run of '=' at the very end of the final group
TrailingPads ==
    {k \in (FinalStart + 1)..Len(src) : \A j \in k..Len(src) : src[j] = 61}

\* how many symbols of the final group are left once that run is stripped
Remaining == Len(src) - FinalStart - Cardinality(TrailingPads)

\* every symbol of the groups before the final one is in the alphabet
PrecedingValid == \A k \in 1..FinalStart : IsSymbol(alphabet, src[k])

\* every symbol left in the final group is in the alphabet
RemainingValid ==
    \A k \in (FinalStart + 1)..(FinalStart + Remaining) : IsSymbol(alphabet, src[k])

\* byte j (from 0) of the bits that the symbols of s carry, a symbol outside
\* the alphabet or past the end counting as value 0
RefDecodeByte(tab, s, j) ==
    LET g    == 4 * (j \div 3)
        v(k) == IF g + k <= Len(s) /\ IsSymbol(tab, s[g + k])
                THEN ValueOf(tab, s[g + k]) ELSE 0
        n    == v(1) * 262144 + v(2) * 4096 + v(3) * 64 + v(4)
    IN  CASE j % 3 = 0 -> n \div 65536
          [] j % 3 = 1 -> (n \div 256) % 256
          [] OTHER     -> n % 256

RefDecode(tab, s, w) == [j \in 1..w |-> RefDecodeByte(tab, s, j - 1)]

\* the unused low bits of the last symbol of a padded final group are zero
UnusedBitsZero ==
    /\ Remaining = 2 => ValueOf(alphabet, src[FinalStart + 2]) % 16 = 0
    /\ Remaining = 3 => ValueOf(alphabet, src[FinalStart + 3]) % 4 = 0

Encoded == pc \in {"encoded", "roundtrip"}
Decoded == pc \in {"decoded", "reencoded"}

(* ---------------------------------------------------------------------- *)
(* Properties                                                               *)
(* ---------------------------------------------------------------------- *)

\* C1: with the RFC 4648 table, encoding x into a destination that is long
\* enough succeeds, and decoding the returned symbols into a destination that
\* is long enough returns Len(x) with the first Len(x) bytes equal to x.
C1_RoundTripRfc ==
    IsRfcTable =>
        /\ (Encoded /\ EncDestFits => ret # ERR)
        /\ (pc = "roundtrip" =>
               /\ ~ub
               /\ ret2 = Len(src)
               /\ SubSeq(dest2, 1, Len(src)) = src)

\* a round trip of a source with a padded final group and a byte above 127
C1_Witness ==
    /\ pc = "roundtrip"
    /\ IsRfcTable
    /\ src = <<255, 255, 255, 200>>
    /\ ret = 8
    /\ SubSeq(dest, 1, 8) = <<47, 47, 47, 47, 121, 65, 61, 61>>
    /\ ret2 = 4
    /\ SubSeq(dest2, 1, 4) = src

\* C2: the round trip holds under every table built by base64_init_alphabet
\* from 64 pairwise-distinct symbols, for sources of every length.
C2_RoundTripCustom ==
    (pc = "roundtrip" /\ ~IsRfcTable) =>
        /\ ~ub
        /\ ret2 = Len(src)
        /\ SubSeq(dest2, 1, Len(src)) = src

\* C3: encode returns ceil(n/3)*4 and writes the RFC 4648 encoding: four symbols
\* per full group cut most-significant-bit-first, a final group of 1 byte as two
\* symbols and "==", of 2 bytes as three symbols and "="; with the RFC 4648
\* table '=' appears only as the last one or two symbols.
C3_EncodeMatchesReference ==
    (Encoded /\ EncDestFits) =>
        /\ ret = EncNeed(Len(src))
        /\ ret % 4 = 0
        /\ SubSeq(dest, 1, ret) = RefEncode(alphabet, src)
        /\ IsRfcTable =>
              \A k \in 1..ret : dest[k] = 61 =>
                  /\ k >= ret - 1
                  /\ \A j \in k..ret : dest[j] = 61

\* "fo" encoded as "Zm8="
C3_Witness ==
    /\ pc = "encoded"
    /\ IsRfcTable
    /\ src = <<102, 111>>
    /\ ret = 4
    /\ SubSeq(dest, 1, 4) = <<90, 109, 56, 61>>

\* C4: a destination shorter than the required length makes encode and decode
\* return -1 with errno EOVERFLOW and dest untouched, whatever the source holds;
\* a destination of at least the required length never yields that report.
C4_CapacityContract ==
    /\ pc = "encoded" =>
          IF Len(dest) < EncNeed(Len(src))
          THEN ret = ERR /\ errno = "EOVERFLOW" /\ dest = FreshDest(Len(dest))
          ELSE ~(ret = ERR /\ errno = "EOVERFLOW")
    /\ pc = "decoded" =>
          IF Len(dest) < DecNeed(Len(src))
          THEN ret = ERR /\ errno = "EOVERFLOW" /\ dest = FreshDest(Len(dest)) /\ ~ub
          ELSE ~(ret = ERR /\ errno = "EOVERFLOW")

\* "ZZ==" decodes to one byte, yet a destination of two bytes is refused
C4_Witness ==
    /\ pc = "decoded"
    /\ IsRfcTable
    /\ src = <<90, 90, 61, 61>>
    /\ Len(dest) = 2
    /\ ret = ERR
    /\ errno = "EOVERFLOW"

\* C5 as stated: decode returns -1 for every source whose length is not a
\* multiple of 4.
C5_NonMultipleOf4Rejected ==
    (Decoded /\ IsRfcTable /\ DecDestFits /\ Len(src) % 4 # 0) => ret = ERR

\* C5 amended: decode returns -1 for every source of length 1 mod 4 (other than
\* the lone "=", whose scan for padding leaves the buffer); a source of length
\* 2 or 3 mod 4 is rejected only if a symbol is outside the alphabet or fewer
\* than two symbols remain in the final group after its trailing '=' are
\* stripped, and otherwise yields 3 bytes per preceding group plus one less
\* than the symbols remaining.
C5_OnlyLengthOneMod4Rejected ==
    (Decoded /\ IsRfcTable /\ DecDestFits) =>
        /\ (Len(src) % 4 = 1 /\ src # <<61>>) => (ret = ERR /\ ~ub)
        /\ Len(src) % 4 \in {2, 3} =>
              IF PrecedingValid /\ Remaining >= 2 /\ RemainingValid
              THEN ret = 3 * (FinalStart \div 4) + Remaining - 1 /\ ~ub
              ELSE ret = ERR

\* "ZZZ", three symbols without padding, decodes to two bytes
C5_Witness ==
    /\ pc = "decoded"
    /\ IsRfcTable
    /\ src = <<90, 90, 90>>
    /\ ret = 2
    /\ SubSeq(dest, 1, 2) = <<101, 150>>

\* C6: under every table, a source holding a byte that is neither a symbol of
\* the table nor a '=' of the run of '=' ending the final group makes decode
\* return -1 with errno ERANGE or EINVAL.
C6_InvalidSymbolRejected ==
    (/\ Decoded
     /\ DecDestFits
     /\ \E k \in 1..Len(src) : ~IsSymbol(alphabet, src[k]) /\ k \notin TrailingPads)
    => (ret = ERR /\ ~ub /\ errno \in {"ERANGE", "EINVAL"})

\* "A=AAA": a '=' inside the first, non-final group
C6_Witness ==
    /\ pc = "decoded"
    /\ IsRfcTable
    /\ src = <<65, 61, 65, 65, 65>>
    /\ ret = ERR
    /\ errno = "ERANGE"

\* C7: when the groups before the final one are valid and exactly one symbol of
\* the final group is left after stripping its trailing '=', decode returns -1
\* with errno EINVAL, under every table; with the RFC 4648 table a final group
\* with 2, 3 or 4 valid symbols left yields 1, 2 or 3 bytes after the 3 bytes
\* of each preceding group.
C7_SingleLeftoverRejected ==
    (Decoded /\ DecDestFits /\ Len(src) >= 1 /\ PrecedingValid) =>
        /\ Remaining = 1 => (ret = ERR /\ errno = "EINVAL" /\ ~ub)
        /\ (IsRfcTable /\ Remaining \in 2..4 /\ RemainingValid) =>
              (ret = 3 * (FinalStart \div 4) + Remaining - 1 /\ ~ub)

\* "Z===": one alphabet symbol and three padding symbols
C7_Witness ==
    /\ pc = "decoded"
    /\ IsRfcTable
    /\ src = <<90, 61, 61, 61>>
    /\ ret = ERR
    /\ errno = "EINVAL"

\* C8: every call of decode or of the tail decoder that returns -1 has set
\* errno to EOVERFLOW, ERANGE or EINVAL.
C8_ErrnoSetOnError ==
    (pc \in {"decoded", "tail"} /\ ret = ERR /\ ~ub) =>
        errno \in {"EOVERFLOW", "ERANGE", "EINVAL"}

\* C9: after a successful encode or decode that returns w, dest[0..w) holds the
\* output and every byte from w to the end of dest is 0.
C9_NulPadded ==
    (pc \in {"encoded", "decoded"} /\ ret # ERR /\ ~ub) =>
        /\ \A k \in (ret + 1)..Len(dest) : dest[k] = 0
        /\ pc = "encoded" => SubSeq(dest, 1, ret) = RefEncode(alphabet, src)
        /\ pc = "decoded" => SubSeq(dest, 1, ret) = RefDecode(alphabet, src, ret)

\* "ZZ==" into a destination longer than 3 bytes: one byte returned, the bytes
\* the tail decoder wrote behind it are zero again
C9_Witness ==
    /\ pc = "decoded"
    /\ IsRfcTable
    /\ src = <<90, 90, 61, 61>>
    /\ Len(dest) > 3
    /\ ret = 1
    /\ dest[1] = 101
    /\ dest[2] = 0

\* C10 as stated: every string decode accepts is what encode gives back for
\* the decoded bytes.
C10_StrictInverse ==
    pc = "reencoded" => (ret2 = Len(src) /\ SubSeq(dest2, 1, ret2) = src)

\* C10 amended: every accepted string whose length is a multiple of 4 and whose
\* final group has zero unused bits is what encode gives back for the decoded
\* bytes.
C10_InverseOnCanonical ==
    (pc = "reencoded" /\ Len(src) % 4 = 0 /\ UnusedBitsZero) =>
        (ret2 = Len(src) /\ SubSeq(dest2, 1, ret2) = src)

\* "ZA==" decodes to one byte and encodes back to "ZA=="
C10_Witness ==
    /\ pc = "reencoded"
    /\ IsRfcTable
    /\ src = <<90, 65, 61, 61>>
    /\ ret = 1
    /\ SubSeq(dest2, 1, 4) = src

\* C11: the tail decoder's scan for padding reads only indices 0 .. srclen-1
\* of the segment it was given (the final 1 to 4 symbols of the source), and its
\* remaining-length counter, one more than the index read last, never goes
\* below 0.
C11_ScanStaysInSegment ==
    (pc \in {"decoded", "tail"} /\ Len(src) >= 1) =>
        /\ low >= 0
        /\ low < Len(src) - FinalStart
        /\ low + 1 >= 0

====
